---- MODULE Spec2Model ----
(***************************************************************************)
(* A model of the dino-budgeter server: the transaction request handlers   *)
(* (handle_transaction_post, _delete, _update_post, _split_post) and the   *)
(* frame materialisation of server/frames.ts, over a relational database   *)
(* held in the variable db.  Every handler is one action: the whole        *)
(* db.tx(...) body, committed when it returns and rolled back when a       *)
(* statement throws.                                                       *)
(***************************************************************************)
EXTENDS Integers, Sequences, FiniteSets, Bags, TLC

VARIABLES db, resp

vars == <<db, resp>>

(***************************************************************************)
(* Bounds of the model.                                                    *)
(***************************************************************************)
\* largest money value (in cents) a request carries
MaxAmount == 1
\* largest share a request carries
MaxShare == 1
\* number of rows of the transactions table
MaxTransactions == 2
\* greatest frame index
MaxFrame == 3

(***************************************************************************)
(* Money (shared/Money): a decimal value or NaN, with its string form.     *)
(***************************************************************************)
NaN == [nan |-> TRUE, cents |-> 0]

Cents(c) == [nan |-> FALSE, cents |-> c]

Zero == Cents(0)

isValid(m, allowNegative) == ~m.nan /\ (allowNegative \/ m.cents >= 0)

plus(a, b) == IF a.nan \/ b.nan THEN NaN ELSE Cents(a.cents + b.cents)

minus(a, b) == IF a.nan \/ b.nan THEN NaN ELSE Cents(a.cents - b.cents)

\* Money.string(): sign, whole units and hundredths
string(m) ==
    IF m.nan THEN <<"NaN", 0, 0>>
    ELSE LET a == IF m.cents < 0 THEN 0 - m.cents ELSE m.cents
         IN  <<IF m.cents < 0 THEN "-" ELSE "", a \div 100, a % 100>>

\* new Money(s)
Money(s) ==
    IF s[1] = "NaN" THEN NaN
    ELSE Cents((IF s[1] = "-" THEN 0 - 1 ELSE 1) * (s[2] * 100 + s[3]))

RECURSIVE sum(_)
\* Money.sum over a sequence of Money
sum(ms) == IF ms = <<>> THEN Zero ELSE plus(ms[1], sum(Tail(ms)))

\* shared/transactions distributeTotal: total split in the ratio of the shares,
\* the first part rounded down to a cent and the rest given to the second
distributeTotal(total, myShare, theirShare) ==
    LET shares == myShare.cents + theirShare.cents
        mine == IF shares = 0 THEN total.cents
                ELSE (total.cents * myShare.cents) \div shares
    IN  <<Cents(mine), Cents(total.cents - mine)>>

(***************************************************************************)
(* Users, groups and friendships (server/user).                            *)
(***************************************************************************)
Users == 1 .. 3

getDefaultGroup(u) == 10 + u

Friendships == {{1, 2}, {2, 3}}

isFriend(u, v) == u # v /\ {u, v} \in Friendships

getFriend(u) == [uid |-> u, gid |-> getDefaultGroup(u)]

\* a null category, and a request that carries none
Null == 0

Undefined == Null - 1

(***************************************************************************)
(* The database: one field per table.  transactions and                    *)
(* shared_transactions are keyed by id (the index), transaction_splits is  *)
(* a set of rows, balances is the friend ledger, frames and categories     *)
(* are sequences of rows in insertion order.                               *)
(***************************************************************************)
EmptyDb ==
    [transactions |-> <<>>,
     shared_transactions |-> <<>>,
     transaction_splits |-> {},
     balances |-> [p \in Users \X Users |-> 0],
     frames |-> EmptyBag,
     categories |-> EmptyBag]

\* the given rows of a table without a key (a bag of rows)
Restrict(table, rows) == [r \in rows |-> table[r]]

\* util.randomId(): an id no row of the table uses
randomId(table) == Len(table) + 1

\* one SQL statement (or payments.addToBalance) applied to the database
Exec(d, s) ==
    CASE s.kind = "insert_transaction" ->
           [d EXCEPT !.transactions = Append(@,
               [id |-> s.id, gid |-> s.gid, frame |-> s.frame, amount |-> s.amount,
                description |-> s.description, category |-> s.category,
                date |-> s.date, alive |-> TRUE])]
      [] s.kind = "insert_shared_transaction" ->
           [d EXCEPT !.shared_transactions = Append(@,
               [id |-> s.id, payer |-> s.payer, settled |-> s.settled])]
      [] s.kind = "insert_transaction_split" ->
           [d EXCEPT !.transaction_splits = @ \cup
               {[tid |-> s.tid, sid |-> s.sid, share |-> s.share]}]
      [] s.kind = "addToBalance" ->
           IF isFriend(s.user, s.other)
           THEN [d EXCEPT !.balances[<<s.user, s.other>>] = @ + s.amount.cents,
                          !.balances[<<s.other, s.user>>] = @ - s.amount.cents]
           ELSE d
      [] s.kind = "update_transaction" ->
           IF s.id \in DOMAIN d.transactions
           THEN [d EXCEPT !.transactions[s.id][s.field] = s.val]
           ELSE d
      [] s.kind = "deleteTransaction" ->
           IF s.id \in DOMAIN d.transactions
           THEN [d EXCEPT !.transactions[s.id].alive = FALSE]
           ELSE d
      [] s.kind = "update_share" ->
           [d EXCEPT !.transaction_splits =
               {IF r.tid = s.tid THEN [r EXCEPT !.share = s.share] ELSE r : r \in @}]
      [] s.kind = "update_payer" ->
           IF s.sid \in DOMAIN d.shared_transactions
           THEN [d EXCEPT !.shared_transactions[s.sid].payer = s.payer]
           ELSE d
      [] s.kind = "delete_ghost_categories" ->
           [d EXCEPT !.categories = Restrict(@, {c \in DOMAIN @ :
                   ~(c.gid = s.gid /\ c.frame = s.index /\ c.ghost)})]
      [] s.kind = "delete_ghost_frames" ->
           [d EXCEPT !.frames = Restrict(@, {f \in DOMAIN @ :
                   ~(f.gid = s.gid /\ f.index = s.index /\ f.ghost)})]
      [] s.kind = "insert_frame" ->
           [d EXCEPT !.frames = @ (+) SetToBag(
               {[gid |-> s.gid, index |-> s.index, income |-> s.income,
                 ghost |-> TRUE]})]
      [] s.kind = "insert_category" ->
           [d EXCEPT !.categories = @ (+) SetToBag(
               {[id |-> s.id, gid |-> s.gid, frame |-> s.frame, name |-> s.name,
                 ordering |-> s.ordering, budget |-> s.budget, ghost |-> TRUE,
                 alive |-> TRUE]})]
      [] s.kind = "mark_frames" ->
           [d EXCEPT !.frames = BagOfAll(
               LAMBDA f : IF f.gid = s.gid /\ f.index = s.index
                          THEN [f EXCEPT !.ghost = FALSE] ELSE f, @)]
      [] s.kind = "mark_categories" ->
           [d EXCEPT !.categories = BagOfAll(
               LAMBDA c : IF c.gid = s.gid /\ c.frame = s.index
                          THEN [c EXCEPT !.ghost = FALSE] ELSE c, @)]

\* "return <status>" inside a db.tx body, taken when the condition holds
Return(when, status) == [kind |-> "return", when |-> when, status |-> status]

RECURSIVE RunSteps(_, _, _, _)
\* The body of a db.tx callback: its steps in program order, from step i on.
\* Step number fail throws (fail = 0: no step does).  status 0: ran to the end.
RunSteps(d, steps, i, fail) ==
    IF i > Len(steps) THEN [db |-> d, threw |-> FALSE, status |-> 0]
    ELSE IF i = fail THEN [db |-> d, threw |-> TRUE, status |-> 0]
    ELSE IF steps[i].kind = "return"
         THEN IF steps[i].when
              THEN [db |-> d, threw |-> FALSE, status |-> steps[i].status]
              ELSE RunSteps(d, steps, i + 1, fail)
         ELSE RunSteps(Exec(d, steps[i]), steps, i + 1, fail)

\* db.tx without the rollback: what the statements wrote stays
db_tx_no_rollback(d, r) == r.db

\* db.tx(body): commit when the body returns, roll back when it throws
db_tx(d, r) == IF r.threw THEN d ELSE r.db

\* the handler's answer: a thrown database error propagates uncaught (500)
Answer(d, r, ok) ==
    [db |-> db_tx(d, r),
     status |-> IF r.threw THEN 500 ELSE IF r.status # 0 THEN r.status ELSE ok]

\* Every outcome of db.tx(body): the body runs to its end or to a return, or
\* any one of its steps throws.
Outcomes(d, steps, ok) ==
    {Answer(d, RunSteps(d, steps, 1, fail), ok) : fail \in 0 .. Len(steps)}

\* a query of the body throws before anything is written
Throws(d) == {Answer(d, [db |-> d, threw |-> TRUE, status |-> 0], 0)}

\* the handler answers before it opens a database transaction
Resolve(d, status) == {[db |-> d, status |-> status]}

(***************************************************************************)
(* server/transactions: the queries the handlers use.                      *)
(***************************************************************************)
\* transactions.getBalance: what otherUser owes user for one split
transactions_getBalance(a) ==
    IF a.payer = a.user THEN a.otherAmount
    ELSE minus(Zero, a.amount)

\* the split of transaction id: a sequence of at most one record
splitOf(d, id) ==
    LET rows == {r \in d.transaction_splits : r.tid = id}
    IN  IF rows = {} THEN <<>>
        ELSE LET r == CHOOSE r \in rows : TRUE
             IN  <<[id |-> r.sid, myShare |-> Money(r.share),
                    payer |-> d.shared_transactions[r.sid].payer]>>

\* transactions.getTransaction: the row with its split attached
getTransaction(d, id) ==
    [gid |-> d.transactions[id].gid, split |-> splitOf(d, id)]

\* transactions.canUserEdit: the transaction exists and is in the user's group
canUserEdit(d, id, uid) ==
    /\ id \in DOMAIN d.transactions
    /\ d.transactions[id].gid = getDefaultGroup(uid)

\* transactions.getOtherTid: the one other transaction of split sid
\* (a sequence of at most one id; empty when the query throws)
getOtherTid(d, tid, sid) ==
    LET rows == {r \in d.transaction_splits : r.sid = sid /\ r.tid # tid}
    IN  IF Cardinality(rows) = 1 THEN <<(CHOOSE r \in rows : TRUE).tid>> ELSE <<>>

\* transactions.getUser: the owner of a transaction
getUser(d, tid) == CHOOSE u \in Users : getDefaultGroup(u) = d.transactions[tid].gid

\* transactions.getBalanceFromDb: the balance of the split of tid as stored
getBalanceFromDb(d, tid) ==
    LET s == splitOf(d, tid)[1]
        otherTid == getOtherTid(d, tid, s.id)[1]
    IN  transactions_getBalance(
            [user |-> getUser(d, tid), otherUser |-> getUser(d, otherTid),
             amount |-> Money(d.transactions[tid].amount),
             otherAmount |-> Money(d.transactions[otherTid].amount),
             payer |-> s.payer])

(***************************************************************************)
(* handle_transaction_post                                                 *)
(***************************************************************************)
hasSplit(request) == request.split # <<>>

\* lines 19-21: the three money values of the split are valid and not negative
SplitFieldsValid(split) ==
    /\ isValid(split.otherAmount, FALSE)
    /\ isValid(split.myShare, FALSE)
    /\ isValid(split.theirShare, FALSE)

\* the comparison of line 27 left out: any amounts pass
SplitMatches_unchecked(request) == TRUE

\* lines 25-27: distributeTotal reproduces the submitted amounts
SplitMatches(request) ==
    LET split == request.split[1]
        total == plus(request.amount, split.otherAmount)
        calc == distributeTotal(total, split.myShare, split.theirShare)
    IN  /\ string(calc[1]) = string(request.amount)
        /\ string(calc[2]) = string(split.otherAmount)

\* line 34: the counterparty must be a friend of the actor
PostFriendCheck(request, actor) ==
    Return(hasSplit(request) /\ ~isFriend(actor, request.split[1].with), 400)

\* lines 37-40: the actor's transaction
PostInsert(d, request, actor) ==
    [kind |-> "insert_transaction", id |-> randomId(d.transactions),
     gid |-> getDefaultGroup(actor), frame |-> request.frame,
     amount |-> string(request.amount), description |-> request.description,
     category |-> IF request.category = Undefined THEN Null ELSE request.category,
     date |-> request.date]

\* lines 42-70: the batch of a split
PostBatch(d, request, actor) ==
    IF ~hasSplit(request) THEN <<>>
    ELSE LET split == request.split[1]
             other == split.with
             payer == IF split.iPaid THEN actor ELSE other
             tx_id == randomId(d.transactions)
             other_id == tx_id + 1
             sid == randomId(d.shared_transactions)
             balance == transactions_getBalance(
                            [user |-> actor, otherUser |-> other,
                             amount |-> request.amount,
                             otherAmount |-> split.otherAmount, payer |-> payer])
         IN  <<[kind |-> "addToBalance", user |-> actor, other |-> other,
                amount |-> balance],
               [kind |-> "insert_transaction", id |-> other_id,
                gid |-> getFriend(other).gid, frame |-> request.frame,
                amount |-> string(split.otherAmount),
                description |-> request.description, category |-> Null,
                date |-> request.date],
               [kind |-> "insert_shared_transaction", id |-> sid, payer |-> payer,
                settled |-> TRUE],
               [kind |-> "insert_transaction_split", tid |-> tx_id, sid |-> sid,
                share |-> string(split.myShare)],
               [kind |-> "insert_transaction_split", tid |-> other_id, sid |-> sid,
                share |-> string(split.theirShare)]>>

\* the friend check placed after the first insert
PostBody_check_late(d, request, actor) ==
    <<PostInsert(d, request, actor), PostFriendCheck(request, actor)>>
        \o PostBatch(d, request, actor)

\* lines 33-84: the db.tx body, in program order
PostBody(d, request, actor) ==
    <<PostFriendCheck(request, actor), PostInsert(d, request, actor)>>
        \o PostBatch(d, request, actor)

handle_transaction_post(d, request, actor) ==
    IF ~isValid(request.amount, FALSE) THEN Resolve(d, 400)
    ELSE IF hasSplit(request) /\ ~SplitFieldsValid(request.split[1])
         THEN Resolve(d, 400)
    ELSE IF hasSplit(request) /\ ~SplitMatches(request)
         THEN Resolve(d, 400)
    ELSE Outcomes(d, PostBody(d, request, actor), 200)

(***************************************************************************)
(* handle_transaction_delete                                               *)
(***************************************************************************)
handle_transaction_delete(d, request, actor) ==
    Outcomes(d, <<Return(~canUserEdit(d, request.id, actor), 400),
                  [kind |-> "deleteTransaction", id |-> request.id]>>, 204)

(***************************************************************************)
(* handle_transaction_update_post and its four callers                     *)
(***************************************************************************)
\* description only: the date is not written to the paired transaction
isSharedField_description_only(field) == field = "description"

isSharedField(field) == field = "date" \/ field = "description"

\* every field may be edited on a shared transaction
canEditShared_any(field) == TRUE

canEditShared(field) == field # "amount"

\* the isValid argument of the caller (lines 107, 112; none for date, category)
updateIsValid(field, value) ==
    CASE field = "description" -> value # ""
      [] field = "amount" -> isValid(value, TRUE)
      [] OTHER -> TRUE

\* the transform argument of the caller (lines 113, 122, 135)
updateTransform(field, value) ==
    CASE field = "amount" -> string(value)
      [] field = "category" -> IF value = Undefined THEN Null ELSE value
      [] OTHER -> value

\* lines 145-161: the db.tx body
UpdateBody(d, field, request, actor) ==
    LET id == request.id
        existing == getTransaction(d, id)
        val == updateTransform(field, request.value)
        linked == IF isSharedField(field) /\ existing.split # <<>>
                  THEN getOtherTid(d, id, existing.split[1].id)
                  ELSE <<>>
    IN  <<Return(existing.gid # getDefaultGroup(actor), 401),
          Return(existing.split # <<>> /\ ~canEditShared(field), 400),
          [kind |-> "update_transaction", field |-> field, val |-> val, id |-> id]>>
        \o [i \in 1 .. Len(linked) |->
               [kind |-> "update_transaction", field |-> field, val |-> val,
                id |-> linked[i]]]

handle_transaction_update_post(d, field, request, actor) ==
    IF ~updateIsValid(field, request.value) THEN Resolve(d, 400)
    ELSE IF request.id \notin DOMAIN d.transactions THEN Throws(d)
    ELSE Outcomes(d, UpdateBody(d, field, request, actor), 204)

(***************************************************************************)
(* handle_transaction_split_post                                           *)
(***************************************************************************)
\* lines 174-197: the db.tx body once the paired transaction is found
SplitBody(d, request, actor, otherTid) ==
    LET calc == distributeTotal(request.total, request.myShare, request.theirShare)
        myAmount == calc[1]
        otherAmount == calc[2]
        otherUid == getUser(d, otherTid)
        payer == IF request.iPaid THEN actor ELSE otherUid
        prevBalance == getBalanceFromDb(d, request.tid)
        newBalance == transactions_getBalance(
                          [user |-> actor, otherUser |-> otherUid,
                           amount |-> myAmount, otherAmount |-> otherAmount,
                           payer |-> payer])
        balanceDelta == minus(newBalance, prevBalance)
    IN  <<[kind |-> "addToBalance", user |-> actor, other |-> otherUid,
           amount |-> balanceDelta],
          [kind |-> "update_transaction", field |-> "amount",
           val |-> string(myAmount), id |-> request.tid],
          [kind |-> "update_transaction", field |-> "amount",
           val |-> string(otherAmount), id |-> otherTid],
          [kind |-> "update_share", share |-> string(request.myShare),
           tid |-> request.tid],
          [kind |-> "update_share", share |-> string(request.theirShare),
           tid |-> otherTid],
          [kind |-> "update_payer", payer |-> payer, sid |-> request.sid]>>

handle_transaction_split_post(d, request, actor) ==
    IF \/ ~isValid(request.total, FALSE)
       \/ ~isValid(request.myShare, FALSE)
       \/ ~isValid(request.theirShare, FALSE)
       \/ request.tid = 0 \/ request.sid = 0
    THEN Resolve(d, 400)
    ELSE LET otherTid == getOtherTid(d, request.tid, request.sid)
         IN  IF otherTid = <<>> \/ splitOf(d, request.tid) = <<>>
             THEN Throws(d)
             ELSE Outcomes(d, SplitBody(d, request, actor, otherTid[1]), 204)

(***************************************************************************)
(* server/frames.ts                                                        *)
(***************************************************************************)
RECURSIVE Selected(_)
\* the rows a select gives for a bag of rows, in some order
Selected(table) ==
    IF table = EmptyBag THEN <<>>
    ELSE LET r == CHOOSE r \in DOMAIN table : TRUE
         IN  <<r>> \o Selected(table (-) SetToBag({r}))

RECURSIVE SortByOrdering(_)
\* "order by ordering asc" over a bag of category rows
SortByOrdering(table) ==
    IF table = EmptyBag THEN <<>>
    ELSE LET c == CHOOSE c \in DOMAIN table :
                     \A o \in DOMAIN table : c.ordering <= o.ordering
         IN  <<c>> \o SortByOrdering(table (-) SetToBag({c}))

\* rows.map(r => new Money(r.amount))
amountsOf(rows) == [i \in DOMAIN rows |-> Money(rows[i].amount)]

\* getBalance with the "alive = true" of its first query left out
getBalance_counts_deleted(d, gid, index) ==
    LET rows == amountsOf(SelectSeq(d.transactions, LAMBDA x : x.gid = gid /\ x.frame <= index))
        frames == Selected(Restrict(d.frames, {f \in DOMAIN d.frames :
                f.gid = gid /\ f.index <= index}))
    IN  minus(sum([i \in DOMAIN frames |-> Money(frames[i].income)]), sum(rows))

\* getBalance (lines 83-91)
getBalance(d, gid, index) ==
    LET rows == amountsOf(SelectSeq(d.transactions,
            LAMBDA x : x.gid = gid /\ x.frame <= index /\ x.alive))
        totalSpent == sum(rows)
        frames == Selected(Restrict(d.frames, {f \in DOMAIN d.frames :
                f.gid = gid /\ f.index <= index}))
        totalIncome == sum([i \in DOMAIN frames |-> Money(frames[i].income)])
    IN  minus(totalIncome, totalSpent)

\* getSpending (lines 93-97)
getSpending(d, gid, frame) ==
    sum(amountsOf(SelectSeq(d.transactions, LAMBDA x : x.gid = gid /\ x.frame = frame /\ x.alive)))

\* categories.getSpending: the alive spending of one category in one frame
categories_getSpending(d, id, frame) ==
    sum(amountsOf(SelectSeq(d.transactions,
            LAMBDA x : x.category = id /\ x.frame = frame /\ x.alive)))

\* categories.fromSerialized
categories_fromSerialized(row) == [row EXCEPT !.budget = Money(row.budget)]

\* getCategories (lines 99-107)
getCategories(d, gid, frame) ==
    LET rows == SortByOrdering(Restrict(d.categories, {c \in DOMAIN d.categories :
            c.gid = gid /\ c.frame = frame /\ c.alive}))
    IN  [i \in DOMAIN rows |->
            LET category == categories_fromSerialized(rows[i])
            IN  [id |-> category.id, gid |-> category.gid, frame |-> category.frame,
                 name |-> category.name, ordering |-> category.ordering,
                 budget |-> category.budget, ghost |-> category.ghost,
                 alive |-> category.alive,
                 balance |-> minus(category.budget,
                                   categories_getSpending(d, category.id, frame))]]

\* shared.fromSerialized
fromSerialized(row) == [row EXCEPT !.income = Money(row.income)]

\* getPreviousFrame (lines 109-112): a sequence of at most one frame
getPreviousFrame(d, gid, index) ==
    LET rows == DOMAIN Restrict(d.frames, {f \in DOMAIN d.frames : f.gid = gid /\ f.index < index})
    IN  IF rows = {} THEN <<>>
        ELSE <<fromSerialized(CHOOSE f \in rows : \A o \in rows : o.index <= f.index)>>

\* categories.DEFAULT_CATEGORIES
DEFAULT_CATEGORIES == <<"Rent", "Food">>

RECURSIVE unusedId(_, _, _)
\* the k-th id from n on that is not in used
unusedId(used, n, k) ==
    IF n \in used THEN unusedId(used, n + 1, k)
    ELSE IF k = 1 THEN n
    ELSE unusedId(used, n + 1, k - 1)

\* util.randomId() for the k-th new category: an id that no category has and
\* no transaction names
randomCategoryId(d, k) ==
    unusedId({c.id : c \in DOMAIN d.categories}
                \cup {d.transactions[i].category : i \in DOMAIN d.transactions},
             1, k)

\* deleteGhost without its second statement: the ghost frames row stays
deleteGhost_categories_only(gid, index) ==
    <<[kind |-> "delete_ghost_categories", gid |-> gid, index |-> index]>>

\* deleteGhost (lines 65-68)
deleteGhost(gid, index) ==
    <<[kind |-> "delete_ghost_categories", gid |-> gid, index |-> index],
      [kind |-> "delete_ghost_frames", gid |-> gid, index |-> index]>>

\* lines 26-55: the frame that is made when no persisted row exists, from
\* the database d as deleteGhost left it
newFrame(d, gid, index) ==
    LET spending == getSpending(d, gid, index)
        balance == getBalance(d, gid, index)
        prevFrame == getPreviousFrame(d, gid, index)
    IN  IF prevFrame # <<>>
        THEN [gid |-> gid, index |-> index, ghost |-> TRUE,
              income |-> prevFrame[1].income,
              spending |-> spending,
              balance |-> plus(balance, prevFrame[1].income),
              categories |->
                 LET cs == getCategories(d, gid, prevFrame[1].index)
                 IN  [i \in DOMAIN cs |-> [cs[i] EXCEPT !.frame = index]]]
        ELSE [gid |-> gid, index |-> index, ghost |-> TRUE,
              income |-> Zero,
              spending |-> spending,
              balance |-> balance,
              categories |->
                 [i \in DOMAIN DEFAULT_CATEGORIES |->
                    LET id == randomCategoryId(d, i)
                    IN  [id |-> id, gid |-> gid, frame |-> index,
                         name |-> DEFAULT_CATEGORIES[i], ordering |-> i - 1,
                         budget |-> Zero, ghost |-> TRUE, alive |-> TRUE,
                         balance |-> minus(Zero, categories_getSpending(d, id, index))]]]

\* lines 57-61: the new frame and its categories are saved
saveFrame(frame) ==
    <<[kind |-> "insert_frame", gid |-> frame.gid, index |-> frame.index,
       income |-> string(frame.income)]>>
    \o [i \in DOMAIN frame.categories |->
          [kind |-> "insert_category", id |-> frame.categories[i].id,
           gid |-> frame.categories[i].gid, frame |-> frame.categories[i].frame,
           name |-> frame.categories[i].name,
           ordering |-> frame.categories[i].ordering,
           budget |-> string(frame.categories[i].budget)]]

\* getOrCreateFrame (lines 10-63): the outcomes, each with the frame returned
getOrCreateFrame(d, gid, index) ==
    LET rows == Restrict(d.frames, {f \in DOMAIN d.frames :
            f.gid = gid /\ f.index = index /\ ~f.ghost})
    IN  IF BagCardinality(rows) > 1 THEN {[db |-> d, status |-> 500, ret |-> <<>>]}
        ELSE IF rows # EmptyBag
        THEN LET row == CHOOSE f \in DOMAIN rows : TRUE
                 frame == fromSerialized(row)
             IN  {[db |-> d, status |-> 200,
                   ret |-> [gid |-> frame.gid, index |-> frame.index,
                            ghost |-> frame.ghost, income |-> frame.income,
                            spending |-> getSpending(d, gid, index),
                            balance |-> getBalance(d, gid, index),
                            categories |-> getCategories(d, gid, index)]],
                  [db |-> d, status |-> 500, ret |-> <<>>]}
        ELSE LET deletes == deleteGhost(gid, index)
                 cleared == RunSteps(d, deletes, 1, 0).db
                 frame == newFrame(cleared, gid, index)
             IN  {[db |-> o.db, status |-> o.status,
                   ret |-> IF o.status = 200 THEN frame ELSE <<>>] :
                     o \in Outcomes(d, deletes \o saveFrame(frame), 200)}

\* markNotGhost (lines 70-75), in a transaction of its caller
markNotGhost(d, gid, index) ==
    Outcomes(d, <<[kind |-> "mark_frames", gid |-> gid, index |-> index],
                  [kind |-> "mark_categories", gid |-> gid, index |-> index]>>, 200)

(***************************************************************************)
(* The requests the model draws from.                                      *)
(***************************************************************************)
Amounts == {Cents(c) : c \in 0 .. MaxAmount}

Shares == {Cents(c) : c \in 0 .. MaxShare}

Totals == {Cents(c) : c \in 0 .. (2 * MaxAmount)}

\* money values that isValid(false) rejects
BadMoney == {NaN, Cents(0 - 1)}

Descriptions == {"a", "b"}

Dates == {"d1", "d2"}

\* well-formed requests to add a transaction, with and without a split
PostRequests(amounts, shares, descriptions, dates, categories, others) ==
    [frame : {1}, amount : amounts, description : descriptions,
     category : categories, date : dates,
     split : {<<>>} \cup
             {<<s>> : s \in [with : others, iPaid : BOOLEAN, otherAmount : amounts,
                             myShare : shares, theirShare : shares]}]

\* requests with one money value that is invalid or negative
BadPostRequests ==
    LET good == [frame |-> 1, amount |-> Cents(1), description |-> "a",
                 category |-> Undefined, date |-> "d1", split |-> <<>>]
        split == [with |-> 2, iPaid |-> TRUE, otherAmount |-> Cents(1),
                  myShare |-> Cents(1), theirShare |-> Cents(1)]
    IN  UNION {{[good EXCEPT !.amount = b],
                [good EXCEPT !.split = <<[split EXCEPT !.otherAmount = b]>>],
                [good EXCEPT !.split = <<[split EXCEPT !.myShare = b]>>],
                [good EXCEPT !.split = <<[split EXCEPT !.theirShare = b]>>]}
               : b \in BadMoney}

\* ids a request may name: 0 (none), the rows there can be, and one beyond
TransactionIds == 0 .. (MaxTransactions + 1)

DeleteRequests == [id : TransactionIds]

UpdateRequests(values) == [id : TransactionIds, value : values]

SplitRequests(totals, shares) ==
    [tid : 1 .. MaxTransactions, sid : 1 .. (MaxTransactions \div 2),
     total : totals, myShare : shares, theirShare : shares, iPaid : BOOLEAN]

\* requests with one value that is invalid, negative or missing
BadSplitRequests ==
    LET good == [tid |-> 1, sid |-> 1, total |-> Cents(1), myShare |-> Cents(1),
                 theirShare |-> Cents(1), iPaid |-> TRUE]
    IN  {[good EXCEPT !.tid = 0], [good EXCEPT !.sid = 0]} \cup
        UNION {{[good EXCEPT !.total = b], [good EXCEPT !.myShare = b],
                [good EXCEPT !.theirShare = b]} : b \in BadMoney}

\* the greatest friend balance the model follows
MaxBalance == 1

InBounds(d) ==
    /\ Len(d.transactions) <= MaxTransactions
    /\ \A p \in Users \X Users :
          d.balances[p] <= MaxBalance /\ d.balances[p] >= 0 - MaxBalance

(***************************************************************************)
(* The transaction handlers as actions.                                    *)
(***************************************************************************)
PostOf(actor, request) ==
    \E r \in handle_transaction_post(db, request, actor) :
       /\ InBounds(r.db)
       /\ db' = r.db
       /\ resp' = [op |-> "post", status |-> r.status]

Post(requests) == \E actor \in Users, request \in requests : PostOf(actor, request)

DeleteOf(actor, request) ==
    \E r \in handle_transaction_delete(db, request, actor) :
       /\ db' = r.db
       /\ resp' = [op |-> "delete", status |-> r.status]

Delete == \E actor \in Users, request \in DeleteRequests : DeleteOf(actor, request)

UpdateOf(field, actor, request) ==
    \E r \in handle_transaction_update_post(db, field, request, actor) :
       /\ db' = r.db
       /\ resp' = [op |-> field, status |-> r.status]

Update(field, values) ==
    \E actor \in Users, request \in UpdateRequests(values) :
       UpdateOf(field, actor, request)

SplitOf(actor, request) ==
    \E r \in handle_transaction_split_post(db, request, actor) :
       /\ InBounds(r.db)
       /\ db' = r.db
       /\ resp' = [op |-> "split", status |-> r.status]

Split(requests) == \E actor \in Users, request \in requests : SplitOf(actor, request)

Init ==
    /\ db = EmptyDb
    /\ resp = [op |-> "none", status |-> 0]

(***************************************************************************)
(* SpecPost: transactions are added, by every user and with every          *)
(* counterparty, and deleted.                                              *)
(***************************************************************************)
AnyPostRequests ==
    PostRequests(Amounts, Shares, {"a"}, {"d1"}, {Undefined}, Users)
        \cup BadPostRequests

AnyPost == Post(AnyPostRequests)

NextPost ==
    \/ AnyPost
    \/ Delete

SpecPost == Init /\ [][NextPost]_vars

(***************************************************************************)
(* SpecSplit: splits are created with user 1 and their amounts, shares and *)
(* payer adjusted by every user; amounts are edited.                       *)
(***************************************************************************)
SharedPostRequests ==
    PostRequests(Amounts, Shares, {"a"}, {"d1"}, {Undefined}, {1})
        \cup BadPostRequests

AdjustRequests == SplitRequests(Totals, Shares) \cup BadSplitRequests

AmountRequests == UpdateRequests(Amounts \cup BadMoney)

SharedPost == Post(SharedPostRequests)

Adjust == Split(AdjustRequests)

\* handle_transaction_amount_post
UpdateAmount == Update("amount", Amounts \cup BadMoney)

NextSplit ==
    \/ SharedPost
    \/ Adjust
    \/ UpdateAmount

SpecSplit == Init /\ [][NextSplit]_vars

(***************************************************************************)
(* C1, C2: handle_transaction_post (checked under SpecPost)                *)
(***************************************************************************)
\* the four cases in which a request to add a transaction is to be refused
PostRefused(request, actor) ==
    \/ request.amount.nan \/ request.amount.cents < 0
    \/ /\ request.split # <<>>
       /\ LET s == request.split[1]
          IN  \/ \E m \in {s.otherAmount, s.myShare, s.theirShare} :
                    m.nan \/ m.cents < 0
              \/ distributeTotal(plus(request.amount, s.otherAmount), s.myShare,
                                 s.theirShare) # <<request.amount, s.otherAmount>>
              \/ ~isFriend(actor, s.with)

\* C1: a request to add a transaction that is answered with 400 leaves every
\* table and the friend ledger as they were; and a request whose amount or
\* split values are invalid or negative, whose amounts are not the ones
\* distributeTotal gives, or whose counterparty is no friend of the actor is
\* answered with 400 (or fails with a database error) and written nowhere.
C1_RejectedPostWritesNothing ==
    /\ [][(resp'.op = "post" /\ resp'.status = 400) => db' = db]_vars
    /\ [](\A actor \in Users, request \in AnyPostRequests :
             PostRefused(request, actor) =>
                /\ \A r \in handle_transaction_post(db, request, actor) :
                      r.db = db /\ r.status \in {400, 500}
                /\ \E r \in handle_transaction_post(db, request, actor) :
                      r.status = 400)

\* a request was answered with 400 when the database held transactions
C1_Witness ==
    /\ resp.op = "post" /\ resp.status = 400
    /\ db.transaction_splits # {}

\* the whole effect of adding a transaction with a split, from d to e
SplitApplied(d, e, actor, request) ==
    LET n == Len(d.transactions)
        sid == Len(d.shared_transactions) + 1
        s == request.split[1]
        payer == IF s.iPaid THEN actor ELSE s.with
        owed == IF s.iPaid THEN s.otherAmount.cents ELSE 0 - request.amount.cents
        mine == [id |-> n + 1, gid |-> getDefaultGroup(actor), frame |-> request.frame,
                 amount |-> string(request.amount),
                 description |-> request.description, category |-> Null,
                 date |-> request.date, alive |-> TRUE]
        theirs == [mine EXCEPT !.id = n + 2, !.gid = getDefaultGroup(s.with),
                               !.amount = string(s.otherAmount)]
    IN  /\ e.transactions = d.transactions \o <<mine, theirs>>
        /\ e.shared_transactions =
              Append(d.shared_transactions, [id |-> sid, payer |-> payer, settled |-> TRUE])
        /\ e.transaction_splits = d.transaction_splits \cup
              {[tid |-> n + 1, sid |-> sid, share |-> string(s.myShare)],
               [tid |-> n + 2, sid |-> sid, share |-> string(s.theirShare)]}
        /\ e.balances = [p \in Users \X Users |->
              IF p = <<actor, s.with>> THEN d.balances[p] + owed
              ELSE IF p = <<s.with, actor>> THEN d.balances[p] - owed
              ELSE d.balances[p]]
        /\ e.frames = d.frames /\ e.categories = d.categories

\* the whole effect of adding a transaction without a split
SingleApplied(d, e, actor, request) ==
    e = [d EXCEPT !.transactions = Append(@,
            [id |-> Len(d.transactions) + 1, gid |-> getDefaultGroup(actor),
             frame |-> request.frame, amount |-> string(request.amount),
             description |-> request.description, category |-> Null,
             date |-> request.date, alive |-> TRUE])]

\* C2: a request to add a transaction changes the database in one piece: it
\* is answered 200 and the database has gained the actor's transaction and,
\* with a split, the mirrored transaction, the shared_transactions row, the
\* two transaction_splits rows and the ledger adjustment; or the database is
\* as it was.
C2_PostAllOrNothing ==
    [][resp'.op = "post" =>
          \/ db' = db /\ resp'.status # 200
          \/ /\ resp'.status = 200
             /\ \E actor \in Users, request \in AnyPostRequests :
                   IF request.split = <<>>
                   THEN SingleApplied(db, db', actor, request)
                   ELSE SplitApplied(db, db', actor, request)]_vars

\* a split was added
C2_Witness ==
    /\ resp.op = "post" /\ resp.status = 200
    /\ Len(db.shared_transactions) = 1
    /\ Cardinality(db.transaction_splits) = 2

(***************************************************************************)
(* C3, C4, C8, C9: splits and their amounts (checked under SpecSplit)      *)
(***************************************************************************)
\* the transaction tid exists and has a split
Shared(d, tid) == tid \in DOMAIN d.transactions /\ splitOf(d, tid) # <<>>

\* the transaction tid exists and is in the default group of uid
Owns(d, uid, tid) ==
    tid \in DOMAIN d.transactions /\ d.transactions[tid].gid = getDefaultGroup(uid)

\* C3 as claimed: no handler changes a transaction for an actor who may not
\* edit it.  A delete of a transaction that does not exist or is not the
\* actor's is answered 400 and writes nothing; an update of a transaction
\* outside the actor's group is answered 401 and writes nothing; and a split
\* adjustment changes the database only when tid is the actor's and sid is
\* the split of tid.
C3_OnlyOwnersModify ==
    /\ \A actor \in Users, request \in DeleteRequests :
          ~Owns(db, actor, request.id) =>
             \A r \in handle_transaction_delete(db, request, actor) :
                r.db = db /\ r.status \in {400, 500}
    /\ \A actor \in Users, request \in UpdateRequests(Amounts) :
          (request.id \in DOMAIN db.transactions /\ ~Owns(db, actor, request.id)) =>
             \A r \in handle_transaction_update_post(db, "amount", request, actor) :
                r.db = db /\ r.status \in {401, 500}
    /\ \A actor \in Users, request \in AdjustRequests :
          \A r \in handle_transaction_split_post(db, request, actor) :
             r.db # db =>
                /\ Owns(db, actor, request.tid)
                /\ \E s \in db.transaction_splits :
                      s.tid = request.tid /\ s.sid = request.sid

\* the status handle_transaction_amount_post has for a shared transaction
AmountStatus(d, actor, request) ==
    IF request.value.nan \/ Owns(d, actor, request.id) THEN 400 ELSE 401

\* C4 as claimed: an amount update of a transaction that has a split is
\* answered 400, whoever sends it, and changes nothing.
C4_SharedAmountAlways400 ==
    \A actor \in Users, request \in AmountRequests :
       Shared(db, request.id) =>
          \A r \in handle_transaction_update_post(db, "amount", request, actor) :
             r.db = db /\ r.status \in {400, 500}

\* C4 as amended: an amount update of a transaction that has a split changes
\* nothing (not the amounts of the two transactions, the shares or the
\* ledger) and is answered 400 when the amount is invalid or the transaction
\* is in the actor's default group, and 401 when it is in another group; the
\* amount of a transaction that has a split changes only in a step of
\* handle_transaction_split_post.
C4_SharedAmountRejected ==
    /\ [](\A actor \in Users, request \in AmountRequests :
             Shared(db, request.id) =>
                /\ \A r \in handle_transaction_update_post(db, "amount", request, actor) :
                      r.db = db /\ r.status \in {AmountStatus(db, actor, request), 500}
                /\ \E r \in handle_transaction_update_post(db, "amount", request, actor) :
                      r.status = AmountStatus(db, actor, request))
    /\ [][\A tid \in DOMAIN db.transactions :
             (Shared(db, tid) /\ db'.transactions[tid].amount # db.transactions[tid].amount)
                => resp'.op = "split"]_vars

\* an amount update was answered 401 when every transaction had a split
C4_Witness ==
    /\ resp.op = "amount" /\ resp.status \in {400, 401}
    /\ db.transactions # <<>>
    /\ \A tid \in DOMAIN db.transactions : Shared(db, tid)

\* the two rows of split sid reconcile, the row r1 taken as "my" side
Reconciled(d, r1, r2) ==
    LET a1 == Money(d.transactions[r1.tid].amount)
        a2 == Money(d.transactions[r2.tid].amount)
    IN  /\ a1.cents >= 0 /\ a2.cents >= 0
        /\ distributeTotal(plus(a1, a2), Money(r1.share), Money(r2.share)) = <<a1, a2>>

\* C8: every split has two transaction_splits rows, and the amounts of its
\* two transactions are not negative and are the pair distributeTotal gives
\* for their sum and the two stored shares (one of the two taken as "my"
\* share), so they sum to the total.
C8_SplitsReconcile ==
    \A sid \in DOMAIN db.shared_transactions :
       LET rows == {r \in db.transaction_splits : r.sid = sid}
       IN  /\ Cardinality(rows) = 2
           /\ \E r1 \in rows : \E r2 \in rows \ {r1} : Reconciled(db, r1, r2)

\* a split was adjusted and both of its transactions carry an amount
C8_Witness ==
    /\ resp.op = "split" /\ resp.status = 204
    /\ \E s \in db.transaction_splits : db.transactions[s.tid].amount # string(Zero)
    /\ \E s \in db.transaction_splits : s.share = string(Zero)

\* what v owes u over all their splits, by the stored amounts and payers
SplitsBalance(d, u, v) ==
    LET mine == {r \in d.transaction_splits :
                   /\ Owns(d, u, r.tid)
                   /\ \E o \in d.transaction_splits :
                         o.sid = r.sid /\ o.tid # r.tid /\ Owns(d, v, o.tid)}
        F[S \in SUBSET mine] ==
            IF S = {} THEN 0
            ELSE LET r == CHOOSE r \in S : TRUE
                 IN  getBalanceFromDb(d, r.tid).cents + F[S \ {r}]
    IN  F[mine]

\* C9 as claimed: the friend ledger of two friends is the sum over their
\* splits of getBalance of each split's current amounts and payer.
C9_LedgerMatchesSplits ==
    \A u \in Users, v \in Users :
       isFriend(u, v) => db.balances[<<u, v>>] = SplitsBalance(db, u, v)

(***************************************************************************)
(* SpecFields: splits are created with user 1 and the description, date    *)
(* and category of every transaction are edited by every user.             *)
(***************************************************************************)
Categories == {Undefined, 1}

FieldPostRequests ==
    PostRequests({Cents(1)}, {Cents(1)}, {"a"}, {"d1"}, Categories, {1})

FieldPost == Post(FieldPostRequests)

\* handle_transaction_description_post
UpdateDescription == Update("description", Descriptions \cup {""})

\* handle_transaction_date_post
UpdateDate == Update("date", Dates)

\* handle_transaction_category_post
UpdateCategory == Update("category", Categories)

NextFields ==
    \/ FieldPost
    \/ UpdateDescription
    \/ UpdateDate
    \/ UpdateCategory

SpecFields == Init /\ [][NextFields]_vars

(***************************************************************************)
(* C5: date, description and category (checked under SpecFields)           *)
(***************************************************************************)
\* the transactions that share a split with transaction id
Paired(d, id) ==
    {s.tid : s \in {s \in d.transaction_splits :
                      /\ s.tid # id
                      /\ \E o \in d.transaction_splits : o.tid = id /\ o.sid = s.sid}}

\* C5: an update of date or description that is answered with 204 writes the
\* new value to the addressed transaction and to the transaction paired with
\* it by a split, in one database transaction; the two transactions of a
\* split always have the same date and the same description; an update of
\* category changes no transaction but the addressed one, and of that one
\* only the category.
C5_SharedFieldsPropagate ==
    /\ [](\A id \in DOMAIN db.transactions : \A other \in Paired(db, id) :
             /\ db.transactions[id].date = db.transactions[other].date
             /\ db.transactions[id].description = db.transactions[other].description)
    /\ [](\A actor \in Users, id \in DOMAIN db.transactions :
             /\ \A value \in Dates :
                   \A r \in handle_transaction_update_post(
                               db, "date", [id |-> id, value |-> value], actor) :
                      IF r.status = 204
                      THEN r.db = [db EXCEPT !.transactions =
                                     [k \in DOMAIN @ |->
                                        IF k \in {id} \cup Paired(db, id)
                                        THEN [@[k] EXCEPT !.date = value]
                                        ELSE @[k]]]
                      ELSE r.db = db
             /\ \A value \in Descriptions :
                   \A r \in handle_transaction_update_post(
                               db, "description", [id |-> id, value |-> value], actor) :
                      IF r.status = 204
                      THEN r.db = [db EXCEPT !.transactions =
                                     [k \in DOMAIN @ |->
                                        IF k \in {id} \cup Paired(db, id)
                                        THEN [@[k] EXCEPT !.description = value]
                                        ELSE @[k]]]
                      ELSE r.db = db
             /\ \A value \in Categories :
                   \A r \in handle_transaction_update_post(
                               db, "category", [id |-> id, value |-> value], actor) :
                      \E c \in {Null, 1} :
                         r.db = [db EXCEPT !.transactions[id].category = c])

\* a date was written to both transactions of a split
C5_Witness ==
    /\ resp.op = "date" /\ resp.status = 204
    /\ \E id \in DOMAIN db.transactions :
          /\ Paired(db, id) # {}
          /\ db.transactions[id].date = "d2"
          /\ db.transactions[id].category = 1
          /\ \A other \in Paired(db, id) :
                db.transactions[other].date = "d2"
                   /\ db.transactions[other].category = Null

(***************************************************************************)
(* SpecFrames: frames are requested and persisted while transactions are   *)
(* added to them and deleted.                                              *)
(***************************************************************************)
\* user 2 has a persisted frame and a transaction in it; user 1 has nothing
OtherGroupDb ==
    [EmptyDb EXCEPT
       !.frames = SetToBag({[gid |-> getDefaultGroup(2), index |-> 1,
                             income |-> string(Cents(1)), ghost |-> FALSE]}),
       !.transactions = <<[id |-> 1, gid |-> getDefaultGroup(2), frame |-> 1,
                           amount |-> string(Cents(1)), description |-> "a",
                           category |-> Null, date |-> "d1", alive |-> TRUE]>>]

\* and the first frame of user 1 is persisted with an income, a budgeted
\* category and a category that was deleted
SeededDb ==
    [OtherGroupDb EXCEPT
       !.frames = @ (+) SetToBag({[gid |-> getDefaultGroup(1), index |-> 1,
                                   income |-> string(Cents(2)), ghost |-> FALSE]}),
       !.categories = SetToBag({[id |-> 1, gid |-> getDefaultGroup(1), frame |-> 1,
                                 name |-> "Rent", ordering |-> 0,
                                 budget |-> string(Cents(2)), ghost |-> FALSE,
                                 alive |-> TRUE],
                                [id |-> 2, gid |-> getDefaultGroup(1), frame |-> 1,
                                 name |-> "Old", ordering |-> 1,
                                 budget |-> string(Cents(1)), ghost |-> FALSE,
                                 alive |-> FALSE]})]

InitFrames ==
    /\ db \in {OtherGroupDb, SeededDb}
    /\ resp = [op |-> "none", status |-> 0]

\* the user whose frames are requested
FrameUsers == {1}

FrameGroups == {getDefaultGroup(u) : u \in FrameUsers}

FrameIndexes == 1 .. MaxFrame

FramePostRequests ==
    [frame : FrameIndexes, amount : Amounts \ {Zero}, description : {"a"},
     category : Categories, date : {"d1"}, split : {<<>>}]

FramePost ==
    \E actor \in FrameUsers, request \in FramePostRequests :
       PostOf(actor, request)

FrameDelete ==
    \E actor \in FrameUsers, id \in DOMAIN db.transactions :
       DeleteOf(actor, [id |-> id])

GetOrCreateFrame ==
    \E gid \in FrameGroups, index \in FrameIndexes :
       \E r \in getOrCreateFrame(db, gid, index) :
          /\ db' = r.db
          /\ resp' = [op |-> "getOrCreateFrame", status |-> r.status]

MarkNotGhost ==
    \E gid \in FrameGroups, index \in FrameIndexes :
       \E r \in markNotGhost(db, gid, index) :
          /\ db' = r.db
          /\ resp' = [op |-> "markNotGhost", status |-> r.status]

NextFrames ==
    \/ FramePost
    \/ FrameDelete
    \/ GetOrCreateFrame
    \/ MarkNotGhost

SpecFrames == InitFrames /\ [][NextFrames]_vars

(***************************************************************************)
(* C6, C7, C10: frames (checked under SpecFrames)                          *)
(***************************************************************************)
Groups == {getDefaultGroup(u) : u \in Users}

RECURSIVE IncomeThrough(_, _, _, _)
\* the cents of income in the frames rows S of group gid up to index
IncomeThrough(d, S, gid, index) ==
    IF S = {} THEN 0
    ELSE LET f == CHOOSE f \in S : TRUE
         IN  IncomeThrough(d, S \ {f}, gid, index)
                + (IF f.gid = gid /\ f.index <= index
                   THEN CopiesIn(f, d.frames) * Money(f.income).cents ELSE 0)

RECURSIVE SpentThrough(_, _, _, _)
\* the cents of the alive ones of the first n transactions of group gid in
\* frames up to index
SpentThrough(d, n, gid, index) ==
    IF n = 0 THEN 0
    ELSE SpentThrough(d, n - 1, gid, index)
            + (IF /\ d.transactions[n].gid = gid
                  /\ d.transactions[n].frame <= index
                  /\ d.transactions[n].alive
               THEN Money(d.transactions[n].amount).cents ELSE 0)

CumulativeBalance(d, gid, index) ==
    Cents(IncomeThrough(d, DOMAIN d.frames, gid, index)
             - SpentThrough(d, Len(d.transactions), gid, index))

\* C6: getBalance(gid, index) is the income of all frames rows of the group
\* with an index up to the given one minus the amounts of all alive
\* transactions of the group in frames up to the given one; deleted
\* transactions, other groups and later frames add nothing; and the balance
\* of a frame that getOrCreateFrame returns is that value for the rows it
\* leaves in the database.
C6_BalanceIsCumulative ==
    /\ \A gid \in Groups, index \in 0 .. (MaxFrame + 1) :
          getBalance(db, gid, index) = CumulativeBalance(db, gid, index)
    /\ \A gid \in FrameGroups, index \in FrameIndexes :
          \A r \in getOrCreateFrame(db, gid, index) :
             r.status = 200 => r.ret.balance = CumulativeBalance(r.db, gid, index)

\* a frame was returned when the balance of the second frame of user 1 was
\* made of the income of two frames, while user 1 had a deleted transaction
\* or one in a later frame, and user 2 an alive one
C6_Witness ==
    /\ resp.op = "getOrCreateFrame" /\ resp.status = 200
    /\ getBalance(db, getDefaultGroup(1), 2) = Cents(4)
    /\ \E i, j \in DOMAIN db.transactions :
          /\ db.transactions[i].gid = getDefaultGroup(1)
          /\ ~db.transactions[i].alive \/ db.transactions[i].frame > 2
          /\ db.transactions[j].gid = getDefaultGroup(2)
          /\ db.transactions[j].alive

\* the frames rows of group gid before index
PriorFrames(d, gid, index) ==
    {f \in DOMAIN d.frames : f.gid = gid /\ f.index < index}

\* what is carried from the previous frame, the balance of a category aside
CarriedFrom(d, ret, gid, index) ==
    LET prev == CHOOSE f \in PriorFrames(d, gid, index) :
                   \A o \in PriorFrames(d, gid, index) : o.index <= f.index
        cats == {c \in DOMAIN d.categories :
                    c.gid = gid /\ c.frame = prev.index /\ c.alive}
    IN  /\ ret.income = Money(prev.income)
        /\ Len(ret.categories) = Cardinality(cats)
        /\ \A p \in cats : \E i \in DOMAIN ret.categories :
              /\ p.id = ret.categories[i].id
              /\ p.name = ret.categories[i].name
              /\ p.ordering = ret.categories[i].ordering
              /\ Money(p.budget) = ret.categories[i].budget
        /\ \A i \in DOMAIN ret.categories : ret.categories[i].frame = index
        /\ \A i, j \in DOMAIN ret.categories :
              i < j => ret.categories[i].ordering <= ret.categories[j].ordering

\* the frame that is made when the group has no earlier frame
Defaults(ret) ==
    /\ ret.income = Zero
    /\ Len(ret.categories) = Len(DEFAULT_CATEGORIES)
    /\ \A i \in DOMAIN ret.categories :
          /\ ret.categories[i].name = DEFAULT_CATEGORIES[i]
          /\ ret.categories[i].budget = Zero

\* the balance of every category of the returned frame is its budget minus
\* the spending of the category in frame index
BalancesOfFrame(d, ret, index) ==
    \A i \in DOMAIN ret.categories :
       ret.categories[i].balance =
          minus(ret.categories[i].budget,
                categories_getSpending(d, ret.categories[i].id, index))

\* C7: when getOrCreateFrame(gid, index) finds no persisted row, the frame it
\* returns takes its income and its alive categories (names, budgets,
\* ordering, the frame set to index) from the frame of the group with the
\* greatest smaller index, and the balance of each carried category is its
\* budget minus the spending of the category in the new frame; with no
\* earlier frame it has zero income and the default categories, each with a
\* zero budget.
C7_CarryForward ==
    \A gid \in FrameGroups, index \in FrameIndexes :
       \A r \in getOrCreateFrame(db, gid, index) :
          (r.status = 200 /\ r.ret.ghost) =>
             IF PriorFrames(db, gid, index) # {}
             THEN /\ CarriedFrom(db, r.ret, gid, index)
                  /\ BalancesOfFrame(db, r.ret, index)
             ELSE Defaults(r.ret)

\* the persisted frames rows of (gid, index)
Persisted(d, gid, index) ==
    {f \in DOMAIN d.frames : f.gid = gid /\ f.index = index /\ ~f.ghost}

\* the rows of the frames table that getOrCreateFrame(gid, index) is to
\* leave alone
KeptFrames(d, gid, index) ==
    Restrict(d.frames, {f \in DOMAIN d.frames : ~(f.gid = gid /\ f.index = index /\ f.ghost)})

\* and those of the categories table
KeptCategories(d, gid, index) ==
    Restrict(d.categories, {c \in DOMAIN d.categories :
            ~(c.gid = gid /\ c.frame = index /\ c.ghost)})

\* C10: there is never more than one frames row for a (gid, index); a frames
\* row that is persisted stays as it is; getOrCreateFrame of a persisted
\* (gid, index) returns that row with its categories, balance and spending
\* and writes nothing; getOrCreateFrame(gid, index) deletes and inserts
\* ghost frames and ghost categories of that (gid, index) only and changes
\* no other row of any table.
C10_PersistedIsAbsorbing ==
    /\ [](\A f, g \in DOMAIN db.frames :
             /\ CopiesIn(f, db.frames) = 1
             /\ (f.gid = g.gid /\ f.index = g.index) => f = g)
    /\ [](\A gid \in FrameGroups, index \in FrameIndexes :
             \A r \in getOrCreateFrame(db, gid, index) :
                /\ KeptFrames(r.db, gid, index) = KeptFrames(db, gid, index)
                /\ KeptCategories(r.db, gid, index) = KeptCategories(db, gid, index)
                /\ \A f \in DOMAIN r.db.frames \ DOMAIN db.frames : f.ghost
                /\ \A c \in DOMAIN r.db.categories \ DOMAIN db.categories : c.ghost
                /\ r.db.transactions = db.transactions
                /\ r.db.shared_transactions = db.shared_transactions
                /\ r.db.transaction_splits = db.transaction_splits
                /\ r.db.balances = db.balances
                /\ Persisted(db, gid, index) # {} =>
                      /\ r.db = db
                      /\ r.status = 200 =>
                            /\ [gid |-> r.ret.gid, index |-> r.ret.index,
                                income |-> string(r.ret.income),
                                ghost |-> r.ret.ghost] \in Persisted(db, gid, index)
                            /\ BalancesOfFrame(db, r.ret, index)
                            /\ Len(r.ret.categories) =
                                  Cardinality({c \in DOMAIN db.categories :
                                     c.gid = gid /\ c.frame = index /\ c.alive})
                            /\ r.ret.balance = CumulativeBalance(db, gid, index)
                            /\ r.ret.spending =
                                  Cents(SpentThrough(db, Len(db.transactions), gid,
                                                     index)
                                        - SpentThrough(db, Len(db.transactions), gid,
                                                       index - 1)))
    /\ [][\A f \in DOMAIN db.frames : ~f.ghost => f \in DOMAIN db'.frames]_vars

\* a frame was returned when user 1 had a second frame made persisted by
\* markNotGhost and a third that is a ghost
C10_Witness ==
    /\ resp.op = "getOrCreateFrame" /\ resp.status = 200
    /\ Persisted(db, getDefaultGroup(1), 2) # {}
    /\ \E f \in DOMAIN db.frames :
          f.gid = getDefaultGroup(1) /\ f.index = 3 /\ f.ghost

====
